---- MODULE Spec2Model ----
(***************************************************************************)
(* Formula-VAD, src/optimize: the two driver scripts data_demo.py (debug   *)
(* runner) and optimize.py (optimizer runner).  Both load a JSON run plan, *)
(* overwrite config.vad_config.alt_vad_machine_configs, hand the           *)
(* serialized plan to the native simulator and parse the JSON text it      *)
(* returns.                                                                *)
(*                                                                         *)
(* Text is a sequence of one-character strings.  A JSON value is a tagged  *)
(* pair:  <<"int", n>>,  <<"float", u>> (u counts units of 1/Unit),        *)
(* <<"NaN", 0>>,  <<"str", chars>>,  <<"arr", <<v1, ...>> >>  and          *)
(* <<"obj", << <<key1, v1>>, ... >> >> (members in insertion order, as in  *)
(* a Python dict).                                                         *)
(***************************************************************************)
EXTENDS Integers, Sequences, FiniteSets, TLC

(***************************************************************************)
(* Floating point.  Python floats carry a 53 bit significand; the model    *)
(* keeps the same round-to-nearest-even arithmetic with a significand of   *)
(* Prec bits.  Float values are integers counting units of 1/Unit.         *)
(***************************************************************************)
Prec == 3

RECURSIVE Pow(_, _)
Pow(b, e) == IF e = 0 THEN 1 ELSE b * Pow(b, e - 1)

FracDigits == Prec + 1
Unit == Pow(2, FracDigits)

Abs(v) == IF v < 0 THEN 0 - v ELSE v

\* q * round-half-even(a / q), for a >= 0 and q > 0
RoundToMultiple(a, q) ==
    LET lo == a \div q
        rem == a % q
    IN  IF 2 * rem < q THEN lo * q
        ELSE IF 2 * rem > q THEN (lo + 1) * q
        ELSE IF lo % 2 = 0 THEN lo * q ELSE (lo + 1) * q

RECURSIVE BitLength(_)
BitLength(a) == IF a = 0 THEN 0 ELSE 1 + BitLength(a \div 2)

\* the float nearest to v units: v keeps its Prec leading bits
RoundToFloat(v) ==
    LET a == Abs(v)
        n == BitLength(a)
        r == IF n <= Prec THEN a ELSE RoundToMultiple(a, Pow(2, n - Prec))
    IN  IF v < 0 THEN 0 - r ELSE r

NaN == <<"NaN", 0>>
JInt(n) == <<"int", n>>
JFloat(u) == <<"float", u>>
JStr(s) == <<"str", s>>
JArr(a) == <<"arr", a>>
JObj(m) == <<"obj", m>>

Tag(v) == v[1]
Val(v) == v[2]

(***************************************************************************)
(* Python dict operations on the member list of an object.                 *)
(***************************************************************************)
HasKey(o, k) == Tag(o) = "obj" /\ \E i \in 1..Len(Val(o)) : Val(o)[i][1] = k

Get(o, k) == Val(o)[CHOOSE i \in 1..Len(Val(o)) : Val(o)[i][1] = k][2]

\* d[k] = v: an existing key keeps its place, a new key goes last
SetItem(o, k, v) ==
    IF HasKey(o, k)
    THEN JObj([i \in 1..Len(Val(o)) |->
                 IF Val(o)[i][1] = k THEN <<k, v>> ELSE Val(o)[i]])
    ELSE JObj(Append(Val(o), <<k, v>>))

(***************************************************************************)
(* json.dumps with the default separators ", " and ": ".                   *)
(***************************************************************************)
Digits == <<"0", "1", "2", "3", "4", "5", "6", "7", "8", "9">>

IsDigit(c) == \E d \in 1..10 : Digits[d] = c
DigitVal(c) == (CHOOSE d \in 1..10 : Digits[d] = c) - 1

RECURSIVE NatRepr(_)
NatRepr(n) == IF n < 10 THEN <<Digits[n + 1]>>
              ELSE Append(NatRepr(n \div 10), Digits[(n % 10) + 1])

IntRepr(n) == IF n < 0 THEN <<"-">> \o NatRepr(0 - n) ELSE NatRepr(n)

\* the k decimal digits of n, leading zeros kept
RECURSIVE FixedDigits(_, _)
FixedDigits(n, k) == IF k = 0 THEN <<>>
                     ELSE Append(FixedDigits(n \div 10, k - 1), Digits[(n % 10) + 1])

RECURSIVE StripZeros(_)
StripZeros(s) == IF Len(s) > 1 /\ s[Len(s)] = "0"
                 THEN StripZeros(SubSeq(s, 1, Len(s) - 1)) ELSE s

\* float.__repr__ of u/Unit: the exact decimal expansion, at least one
\* fractional digit ("50.0", "0.5", "0.0625")
FloatRepr(u) ==
    LET a == Abs(u)
    IN  (IF u < 0 THEN <<"-">> ELSE <<>>)
        \o NatRepr(a \div Unit) \o <<".">>
        \o StripZeros(FixedDigits((a % Unit) * Pow(5, FracDigits), FracDigits))

RECURSIVE dumps(_)
RECURSIVE JoinMembers(_, _)
RECURSIVE JoinElements(_, _)

JoinMembers(m, i) ==
    IF i > Len(m) THEN <<>>
    ELSE (IF i > 1 THEN <<",", " ">> ELSE <<>>)
         \o <<"\"">> \o m[i][1] \o <<"\"", ":", " ">> \o dumps(m[i][2])
         \o JoinMembers(m, i + 1)

JoinElements(a, i) ==
    IF i > Len(a) THEN <<>>
    ELSE (IF i > 1 THEN <<",", " ">> ELSE <<>>) \o dumps(a[i])
         \o JoinElements(a, i + 1)

dumps(v) ==
    CASE Tag(v) = "int"   -> IntRepr(Val(v))
      [] Tag(v) = "float" -> FloatRepr(Val(v))
      [] Tag(v) = "NaN"   -> <<"N", "a", "N">>
      [] Tag(v) = "str"   -> <<"\"">> \o Val(v) \o <<"\"">>
      [] Tag(v) = "arr"   -> <<"[">> \o JoinElements(Val(v), 1) \o <<"]">>
      [] Tag(v) = "obj"   -> <<"{">> \o JoinMembers(Val(v), 1) \o <<"}">>

(***************************************************************************)
(* json.loads.  Every parsing operator returns [ok, v, i]: whether a value *)
(* was read, the value, and the index after it.  The reader covers         *)
(* objects, arrays, strings without escapes, decimal numbers without       *)
(* exponent and the literal NaN.  With lenient = TRUE the reader also      *)
(* takes the spellings nan and -nan for NaN; json.loads is the reader      *)
(* with lenient = FALSE.                                                   *)
(***************************************************************************)
Fail == [ok |-> FALSE, v |-> <<"none", 0>>, i |-> 0]
Ok(v, i) == [ok |-> TRUE, v |-> v, i |-> i]

At(s, i) == IF i >= 1 /\ i <= Len(s) THEN s[i] ELSE "EOF"

\* whether text w occurs in s at index i
StartsWith(s, i, w) ==
    /\ i >= 1
    /\ i + Len(w) - 1 <= Len(s)
    /\ \A j \in 1..Len(w) : s[i + j - 1] = w[j]

RECURSIVE SkipWs(_, _)
SkipWs(s, i) == IF At(s, i) = " " THEN SkipWs(s, i + 1) ELSE i

RECURSIVE ScanDigits(_, _)
ScanDigits(s, i) == IF IsDigit(At(s, i)) THEN ScanDigits(s, i + 1) ELSE i

RECURSIVE DigitsVal(_, _, _)
DigitsVal(s, i, j) == IF j <= i THEN 0
                      ELSE 10 * DigitsVal(s, i, j - 1) + DigitVal(s[j - 1])

RECURSIVE FindQuote(_, _)
FindQuote(s, i) == IF i > Len(s) THEN 0
                   ELSE IF s[i] = "\"" THEN i ELSE FindQuote(s, i + 1)

\* s[i] is the opening quote
ParseString(s, i) ==
    LET j == FindQuote(s, i + 1)
    IN  IF j = 0 THEN Fail ELSE Ok(SubSeq(s, i + 1, j - 1), j + 1)

\* -?(0|[1-9][0-9]*)(\.[0-9]+)?  at index i
ParseNumber(s, i) ==
    LET neg  == At(s, i) = "-"
        i0   == IF neg THEN i + 1 ELSE i
        i1   == IF At(s, i0) = "0" THEN i0 + 1 ELSE ScanDigits(s, i0)
        ip   == DigitsVal(s, i0, i1)
        frac == At(s, i1) = "." /\ IsDigit(At(s, i1 + 1))
        i2   == IF frac THEN ScanDigits(s, i1 + 1) ELSE i1
        k    == i2 - (i1 + 1)
        fp   == DigitsVal(s, i1 + 1, i2)
        u    == RoundToFloat(ip * Unit
                             + RoundToMultiple(fp * Unit, Pow(10, k)) \div Pow(10, k))
    IN  IF i1 = i0 THEN Fail
        ELSE IF frac THEN Ok(JFloat(IF neg THEN 0 - u ELSE u), i2)
        ELSE Ok(JInt(IF neg THEN 0 - ip ELSE ip), i1)

RECURSIVE ParseValue(_, _, _)
RECURSIVE ParseMembers(_, _, _, _)
RECURSIVE ParseElements(_, _, _, _)

\* members of an object from index i on, o holds the members read so far
ParseMembers(s, i, lenient, o) ==
    LET i1 == SkipWs(s, i)
        k  == ParseString(s, i1)
        i2 == SkipWs(s, k.i)
        v  == ParseValue(s, i2 + 1, lenient)
        i3 == SkipWs(s, v.i)
        o2 == SetItem(o, k.v, v.v)
    IN  IF At(s, i1) # "\"" THEN Fail
        ELSE IF ~k.ok \/ At(s, i2) # ":" THEN Fail
        ELSE IF ~v.ok THEN Fail
        ELSE IF At(s, i3) = "}" THEN Ok(o2, i3 + 1)
        ELSE IF At(s, i3) = "," THEN ParseMembers(s, i3 + 1, lenient, o2)
        ELSE Fail

\* elements of an array from index i on, a holds the elements read so far
ParseElements(s, i, lenient, a) ==
    LET v  == ParseValue(s, i, lenient)
        i1 == SkipWs(s, v.i)
        a2 == Append(a, v.v)
    IN  IF ~v.ok THEN Fail
        ELSE IF At(s, i1) = "]" THEN Ok(JArr(a2), i1 + 1)
        ELSE IF At(s, i1) = "," THEN ParseElements(s, i1 + 1, lenient, a2)
        ELSE Fail

ParseValue(s, i, lenient) ==
    LET i1 == SkipWs(s, i)
        c  == At(s, i1)
        st == ParseString(s, i1)
    IN  CASE c = "{" ->
               IF At(s, SkipWs(s, i1 + 1)) = "}"
               THEN Ok(JObj(<<>>), SkipWs(s, i1 + 1) + 1)
               ELSE ParseMembers(s, i1 + 1, lenient, JObj(<<>>))
          [] c = "[" ->
               IF At(s, SkipWs(s, i1 + 1)) = "]"
               THEN Ok(JArr(<<>>), SkipWs(s, i1 + 1) + 1)
               ELSE ParseElements(s, i1 + 1, lenient, <<>>)
          [] c = "\"" -> IF st.ok THEN Ok(JStr(st.v), st.i) ELSE Fail
          [] StartsWith(s, i1, <<"N", "a", "N">>) -> Ok(NaN, i1 + 3)
          [] lenient /\ StartsWith(s, i1, <<"n", "a", "n">>) -> Ok(NaN, i1 + 3)
          [] lenient /\ StartsWith(s, i1, <<"-", "n", "a", "n">>) -> Ok(NaN, i1 + 4)
          [] OTHER -> ParseNumber(s, i1)

\* the whole text is one value, nothing but blanks after it
Read(s, lenient) ==
    LET r == ParseValue(s, 1, lenient)
    IN  IF r.ok /\ SkipWs(s, r.i) = Len(s) + 1 THEN r ELSE Fail

loads(s) == Read(s, FALSE)

(***************************************************************************)
(* State.                                                                  *)
(***************************************************************************)
VARIABLES
    prog,      \* which script runs: "data_demo" or "optimize"
    pc,        \* "ready", "calling" (inside simulator.execute) or "exited"
    content,   \* text of the plan file
    config,    \* the in-memory plan
    x,         \* rows of the batch being evaluated (optimize)
    sent,      \* plan text handed to simulator.execute by the last call
    r,         \* text returned by the simulator call, <<>> until it returns
    out,       \* out["F"] of the evaluation under way or last ended (optimize)
    printed,   \* the score list printed (data_demo)
    raised,    \* the exception that ended the run, "none" if none
    exit,      \* <<>> while running, <<code>> once the process has ended
    calls,     \* simulator calls issued so far
    batches,   \* _evaluate invocations so far
    inFlight   \* simulator calls issued and not yet returned

vars == <<prog, pc, content, config, x, sent, r, out, printed, raised, exit,
          calls, batches, inFlight>>

(***************************************************************************)
(* Names used by the two scripts.                                          *)
(***************************************************************************)
K_config == <<"c","o","n","f","i","g">>
K_vad_config == <<"v","a","d","_","c","o","n","f","i","g">>
K_alt_vad_machine_configs ==
    <<"a","l","t","_","v","a","d","_","m","a","c","h","i","n","e","_",
      "c","o","n","f","i","g","s">>
K_speech_min_freq == <<"s","p","e","e","c","h","_","m","i","n","_","f","r","e","q">>
K_speech_max_freq == <<"s","p","e","e","c","h","_","m","a","x","_","f","r","e","q">>
K_long_term_speech_avg_sec ==
    <<"l","o","n","g","_","t","e","r","m","_","s","p","e","e","c","h","_",
      "a","v","g","_","s","e","c">>
K_short_term_speech_avg_sec ==
    <<"s","h","o","r","t","_","t","e","r","m","_","s","p","e","e","c","h","_",
      "a","v","g","_","s","e","c">>
K_speech_threshold_factor ==
    <<"s","p","e","e","c","h","_","t","h","r","e","s","h","o","l","d","_",
      "f","a","c","t","o","r">>
K_error == <<"e","r","r","o","r">>
K_alt == <<"a","l","t">>
K_f_score == <<"f","_","s","c","o","r","e">>

(***************************************************************************)
(* The run plan files.  PlanBare is the smallest plan the scripts accept;  *)
(* PlanFull carries other keys before and after every key on the path      *)
(* config.vad_config.alt_vad_machine_configs, and a previous value of it.  *)
(***************************************************************************)
PlanBare == JObj(<< <<K_config, JObj(<< <<K_vad_config, JObj(<<>>)>> >>)>> >>)

PlanFull ==
    JObj(<< <<<<"n","a","m","e">>, JStr(<<"p","1">>)>>,
            <<K_config,
              JObj(<< <<<<"r","a","t","e">>, JInt(48000)>>,
                      <<K_vad_config,
                        JObj(<< <<<<"f","f","t">>, JInt(512)>>,
                                <<K_alt_vad_machine_configs,
                                  JArr(<< JObj(<< <<K_speech_max_freq, JInt(900)>> >>) >>)>>,
                                <<<<"g","a","i","n">>, JFloat(Unit \div 2)>> >>)>>,
                      <<<<"f","i","l","e","s">>,
                        JArr(<< JStr(<<"a",".","w","a","v">>) >>)>> >>)>>,
            <<<<"n","o","t","e">>, NaN>> >>)

\* FILE of data_demo.py is tmp/plan_debug.json, FILE of optimize.py is
\* tmp/plan.json
PlanFiles(script) ==
    IF script = "data_demo" THEN {dumps(PlanBare), dumps(PlanFull)}
    ELSE {dumps(PlanFull)}

\* variant: vad_config is rebuilt to hold the alternatives alone
InjectAltRebuilding(cfg, vad_conf) ==
    SetItem(cfg, K_config,
            SetItem(Get(cfg, K_config), K_vad_config,
                    JObj(<< <<K_alt_vad_machine_configs, JArr(vad_conf)>> >>)))

\* config['config']['vad_config']['alt_vad_machine_configs'] = vad_conf
InjectAlt(cfg, vad_conf) ==
    LET c  == Get(cfg, K_config)
        vc == Get(c, K_vad_config)
    IN  SetItem(cfg, K_config,
                SetItem(c, K_vad_config,
                        SetItem(vc, K_alt_vad_machine_configs, JArr(vad_conf))))

\* the three fixed alternatives of the debug runner
DemoAlts == << JObj(<< <<K_speech_max_freq, JInt(1000)>> >>),
               JObj(<< <<K_speech_max_freq, JInt(1500)>> >>),
               JObj(<< <<K_speech_max_freq, JInt(2000)>> >>) >>

(***************************************************************************)
(* Candidate batches of the optimizer.  A row is one candidate: its five   *)
(* columns, numpy float64 values, inside the bounds xl..xu.                *)
(***************************************************************************)
xl == <<50 * Unit, 500 * Unit, (21 * Unit) \div 10, Unit \div 100, 1 * Unit>>
xu == <<450 * Unit, 2500 * Unit, 500 * Unit, 2 * Unit, 200 * Unit>>

MaxN == 2

Rows == { <<64 * Unit, 512 * Unit, 4 * Unit, Unit \div 2, 1 * Unit>>,
          <<448 * Unit, 2048 * Unit, 256 * Unit, 2 * Unit, 128 * Unit>> }

RowOk(row) == \A c \in 1..5 : xl[c] <= row[c] /\ row[c] <= xu[c]

\* pymoo keeps every candidate inside the bounds
Candidates == { row \in Rows : RowOk(row) }

Batches == UNION { [1..n -> Candidates] : n \in 1..MaxN }

\* the dict built from row i of the batch
RowConf(rows, i) ==
    JObj(<< <<K_speech_min_freq, JFloat(rows[i][1])>>,
            <<K_speech_max_freq, JFloat(rows[i][2])>>,
            <<K_long_term_speech_avg_sec, JFloat(rows[i][3])>>,
            <<K_short_term_speech_avg_sec, JFloat(rows[i][4])>>,
            <<K_speech_threshold_factor, JFloat(rows[i][5])>> >>)

\* variant: the rows are appended to the list the plan already holds
VadConfAppended(rows) ==
    LET vc  == Get(Get(config, K_config), K_vad_config)
        old == IF HasKey(vc, K_alt_vad_machine_configs)
               THEN Val(Get(vc, K_alt_vad_machine_configs)) ELSE <<>>
    IN  old \o [i \in 1..Len(rows) |-> RowConf(rows, i)]

\* vad_conf after the loop over range(len(x))
VadConf(rows) == [i \in 1..Len(rows) |-> RowConf(rows, i)]

\* variant: simulator.execute called inside the loop
CallsIssuedPerRow(rows) == Len(rows)

\* simulator.execute is called once, after the loop
CallsIssued(rows) == 1

(***************************************************************************)
(* str.replace: every occurrence of old, left to right, not overlapping.   *)
(***************************************************************************)
Occurrences(s, old) == { j \in 1..Len(s) : StartsWith(s, j, old) }

Least(S) == CHOOSE j \in S : \A k \in S : j <= k

\* s from index i on, occ being the places where old occurs in s
RECURSIVE ReplaceFrom(_, _, _, _, _)
ReplaceFrom(s, i, occ, old, new) ==
    IF \A j \in occ : j < i THEN SubSeq(s, i, Len(s))
    ELSE LET j == Least({ k \in occ : k >= i })
         IN  SubSeq(s, i, j - 1) \o new
             \o ReplaceFrom(s, j + Len(old), occ, old, new)

Replace(s, old, new) == ReplaceFrom(s, 1, Occurrences(s, old), old, new)

\* variant: only the spelling -nan is rewritten
NormalizeMinusOnly(s) == Replace(s, <<"-","n","a","n">>, <<"N","a","N">>)

\* s.replace('-nan', 'NaN').replace('nan', 'NaN')
Normalize(s) ==
    Replace(Replace(s, <<"-","n","a","n">>, <<"N","a","N">>),
            <<"n","a","n">>, <<"N","a","N">>)

(***************************************************************************)
(* Result texts of the simulator: an object with an optional error member  *)
(* and an optional alt member of n entries, each carrying an f_score       *)
(* token, written without blanks; or a text cut short.                     *)
(***************************************************************************)
FScoreTokens ==
    { FloatRepr(0), FloatRepr(1), FloatRepr(Unit \div 2),
      <<"n","a","n">>, <<"-","n","a","n">>, <<"N","a","N">> }

ErrorMessages == { <<"b","o","o","m">>, <<"b","a","d","-","n","a","n">> }

None == <<"None">>

RECURSIVE WireEntries(_, _)
WireEntries(toks, i) ==
    IF i > Len(toks) THEN <<>>
    ELSE (IF i > 1 THEN <<",">> ELSE <<>>)
         \o <<"{", "\"">> \o K_f_score \o <<"\"", ":">> \o toks[i] \o <<"}">>
         \o WireEntries(toks, i + 1)

Wire(err, toks) ==
    <<"{">>
    \o (IF err = None THEN <<>>
        ELSE <<"\"">> \o K_error \o <<"\"", ":", "\"">> \o err \o <<"\"">>)
    \o (IF err # None /\ toks # None THEN <<",">> ELSE <<>>)
    \o (IF toks = None THEN <<>>
        ELSE <<"\"">> \o K_alt \o <<"\"", ":", "[">> \o WireEntries(toks, 1) \o <<"]">>)
    \o <<"}">>

CutShort == <<"{", "\"", "a", "l", "t", "\"", ":", "[">>

SimOutputsOf ==
    [n \in 1..(IF MaxN > Len(DemoAlts) THEN MaxN ELSE Len(DemoAlts)) |->
       { Wire(err, toks) : err \in ErrorMessages \cup {None},
                           toks \in [1..n -> FScoreTokens] \cup {None} }
       \cup {CutShort}]

\* what simulator.execute may return when handed n alternative configs
SimOutputs(n) == SimOutputsOf[n]

(***************************************************************************)
(* Reading the scores out of a parsed result.                              *)
(***************************************************************************)
IsNumber(v) == Tag(v) \in {"int", "float", "NaN"}

\* [d['f_score'] for d in data['alt']] raises KeyError on a missing key
ScoresReadable(data) ==
    /\ HasKey(data, K_alt)
    /\ Tag(Get(data, K_alt)) = "arr"
    /\ \A i \in 1..Len(Val(Get(data, K_alt))) :
          HasKey(Val(Get(data, K_alt))[i], K_f_score)

Scores(data) ==
    [i \in 1..Len(Val(Get(data, K_alt))) |-> Get(Val(Get(data, K_alt))[i], K_f_score)]

\* variant: the score itself is handed back
LossNotSubtracted(f) == IF Tag(f) = "int" THEN JFloat(Val(f) * Unit) ELSE f

\* 1.0 - f in float64 arithmetic; not-a-number stays not-a-number
Loss(f) ==
    CASE Tag(f) = "float" -> JFloat(RoundToFloat(Unit - Val(f)))
      [] Tag(f) = "int"   -> JFloat(RoundToFloat(Unit - Val(f) * Unit))
      [] Tag(f) = "NaN"   -> NaN

\* f1 = 1.0 - f_score, element by element
Losses(f_score) == [i \in 1..Len(f_score) |-> Loss(f_score[i])]

\* variants: the error member is not looked at
ErrorIgnored(data) == FALSE
DemoErrorIgnored(data) == FALSE

\* optimize.py: 'error' in data
ErrorInData(data) == HasKey(data, K_error)

\* data_demo.py: 'error' in data
DemoErrorInData(data) == HasKey(data, K_error)

MaxBatches == 2

Unset == [set |-> FALSE, v |-> <<>>]
IsSet(v) == [set |-> TRUE, v |-> v]

Init ==
    /\ prog \in {"data_demo", "optimize"}
    /\ pc = "ready"
    /\ content \in PlanFiles(prog)
    /\ config = loads(content).v
    /\ x = <<>>
    /\ sent = <<>>
    /\ r = <<>>
    /\ out = Unset
    /\ printed = Unset
    /\ raised = "none"
    /\ exit = <<>>
    /\ calls = 0
    /\ batches = 0
    /\ inFlight = 0

\* an uncaught exception ends the process with status 1
Raise(e) ==
    /\ raised' = e
    /\ pc' = "exited"
    /\ exit' = <<1>>

(***************************************************************************)
(* optimize.py                                                             *)
(***************************************************************************)
\* _evaluate up to the call of simulator.execute; the caller hands in a
\* fresh out, and r is a local of the invocation
EvaluateCall(batch) ==
    /\ prog = "optimize"
    /\ pc = "ready"
    /\ batches < MaxBatches
    /\ x' = batch
    /\ config' = InjectAlt(config, VadConf(batch))
    /\ sent' = dumps(config')
    /\ calls' = calls + CallsIssued(batch)
    /\ inFlight' = inFlight + 1
    /\ batches' = batches + 1
    /\ pc' = "calling"
    /\ r' = <<>>
    /\ out' = Unset
    /\ UNCHANGED <<prog, content, printed, raised, exit>>

\* _evaluate from the return of simulator.execute on
EvaluateReturn ==
    /\ prog = "optimize"
    /\ pc = "calling"
    /\ \E text \in SimOutputs(Len(x)) :
         /\ r' = text
         /\ \E data \in {loads(Normalize(text))} :
                IF ~data.ok
                THEN Raise("JSONDecodeError") /\ UNCHANGED out
                ELSE IF ErrorInData(data.v)
                THEN Raise("ValueError") /\ UNCHANGED out
                ELSE IF ~ScoresReadable(data.v)
                THEN Raise("KeyError") /\ UNCHANGED out
                ELSE IF \E i \in 1..Len(Scores(data.v)) : ~IsNumber(Scores(data.v)[i])
                THEN Raise("TypeError") /\ UNCHANGED out
                ELSE /\ out' = IsSet(Losses(Scores(data.v)))
                     /\ pc' = "ready"
                     /\ UNCHANGED <<raised, exit>>
    /\ inFlight' = inFlight - 1
    /\ UNCHANGED <<prog, content, config, x, sent, printed, calls, batches>>

\* minimize returns and the best solution is printed
Finish ==
    /\ prog = "optimize"
    /\ pc = "ready"
    /\ batches >= 1
    /\ pc' = "exited"
    /\ exit' = <<0>>
    /\ UNCHANGED <<prog, content, config, x, sent, r, out, printed, raised,
                   calls, batches, inFlight>>

(***************************************************************************)
(* data_demo.py                                                            *)
(***************************************************************************)
\* the module body up to the call of simulator.execute
DemoCall ==
    /\ prog = "data_demo"
    /\ pc = "ready"
    /\ config' = InjectAlt(config, DemoAlts)
    /\ sent' = dumps(config')
    /\ calls' = calls + 1
    /\ inFlight' = inFlight + 1
    /\ pc' = "calling"
    /\ UNCHANGED <<prog, content, x, r, out, printed, raised, exit, batches>>

\* the module body from the return of simulator.execute on
DemoReturn ==
    /\ prog = "data_demo"
    /\ pc = "calling"
    /\ \E text \in SimOutputs(Len(DemoAlts)) :
         /\ r' = text
         /\ \E data \in {loads(text)} :
                IF ~data.ok
                THEN Raise("JSONDecodeError") /\ UNCHANGED printed
                ELSE IF DemoErrorInData(data.v)
                THEN Raise("SystemExit") /\ UNCHANGED printed
                ELSE IF ~ScoresReadable(data.v)
                THEN Raise("KeyError") /\ UNCHANGED printed
                ELSE /\ printed' = IsSet(Scores(data.v))
                     /\ pc' = "exited"
                     /\ exit' = <<0>>
                     /\ UNCHANGED raised
    /\ inFlight' = inFlight - 1
    /\ UNCHANGED <<prog, content, config, x, sent, out, calls, batches>>

Next ==
    \/ \E batch \in Batches : EvaluateCall(batch)
    \/ EvaluateReturn
    \/ Finish
    \/ DemoCall
    \/ DemoReturn

Spec == Init /\ [][Next]_vars

(***************************************************************************)
(* What the raw result text says: Raw is the text read with the spellings  *)
(* nan and -nan taken as numbers.  The formulas below bind it once, as     *)
(* raw, and hand it to the predicates that follow.                         *)
(***************************************************************************)
Returned == r # <<>>
Raw == {Read(r, TRUE)}

HasError(raw) == raw.ok /\ HasKey(raw.v, K_error)
HasAlt(raw) == raw.ok /\ HasKey(raw.v, K_alt)

\* no error member, and an alt member of n entries each with a numeric f_score
HasScores(raw, n) ==
    /\ raw.ok
    /\ ~HasKey(raw.v, K_error)
    /\ ScoresReadable(raw.v)
    /\ Len(Scores(raw.v)) = n
    /\ \A i \in 1..n : IsNumber(Scores(raw.v)[i])

\* some number of the raw text is spelled nan or -nan
OddSpelling(raw) == raw.ok /\ ~loads(r).ok

\* the plan with config.vad_config.alt_vad_machine_configs taken out
RECURSIVE Without(_, _)
Without(m, k) ==
    IF m = <<>> THEN <<>>
    ELSE IF m[1][1] = k THEN Without(Tail(m), k)
    ELSE <<m[1]>> \o Without(Tail(m), k)

OtherKeys(plan) ==
    LET c  == Get(plan, K_config)
        vc == Get(c, K_vad_config)
    IN  SetItem(plan, K_config,
                SetItem(c, K_vad_config,
                        JObj(Without(Val(vc), K_alt_vad_machine_configs))))

AltConfigs(plan) ==
    Get(Get(Get(plan, K_config), K_vad_config), K_alt_vad_machine_configs)

\* a value with every number replaced by one mark: its keys and strings
RECURSIVE Skeleton(_)
Skeleton(v) ==
    CASE Tag(v) = "obj" ->
           JObj([i \in 1..Len(Val(v)) |-> <<Val(v)[i][1], Skeleton(Val(v)[i][2])>>])
      [] Tag(v) = "arr" -> JArr([i \in 1..Len(Val(v)) |-> Skeleton(Val(v)[i])])
      [] Tag(v) = "str" -> v
      [] OTHER -> <<"number", 0>>

(***************************************************************************)
(* C1.  optimize.py: when the simulator result holds the key error, with   *)
(* or without alt, _evaluate raises ValueError: out["F"] is not assigned,  *)
(* the run has ended, and once a run has ended no simulator call is        *)
(* issued any more.                                                        *)
(***************************************************************************)
C1_ErrorState ==
    (prog = "optimize" /\ Returned)
        => \E raw \in Raw :
             HasError(raw)
                 => /\ raised = "ValueError"
                    /\ ~out.set
                    /\ pc = "exited"
                    /\ inFlight = 0

C1_EndedStep ==
    pc = "exited" => (pc' = "exited" /\ calls' = calls /\ batches' = batches)

C1_ErrorAborts == []C1_ErrorState /\ [][C1_EndedStep]_vars

C1_Witness ==
    /\ prog = "optimize"
    /\ Returned
    /\ \E raw \in Raw : HasError(raw) /\ HasAlt(raw)
    /\ raised = "ValueError"
    /\ batches = 2

(***************************************************************************)
(* C2.  data_demo.py: when the simulator result holds the key error, with  *)
(* or without alt, the process ends with exit code 1 and no score list is  *)
(* printed; it ends with exit code 0 only when the result has no error     *)
(* key.                                                                    *)
(***************************************************************************)
C2_DemoExitCode ==
    prog = "data_demo"
        => /\ exit = <<0>> => Returned
           /\ Returned
                 => \E raw \in Raw :
                      /\ HasError(raw) => (pc = "exited" /\ exit = <<1>> /\ ~printed.set)
                      /\ exit = <<0>> => (raw.ok /\ ~HasKey(raw.v, K_error))

C2_Witness ==
    /\ prog = "data_demo"
    /\ Returned
    /\ \E raw \in Raw : HasError(raw) /\ HasAlt(raw)
    /\ loads(r).ok
    /\ exit = <<1>>

(***************************************************************************)
(* C3.  optimize.py: one simulator call per _evaluate invocation whatever  *)
(* the number of rows, so the calls issued equal the batches evaluated,    *)
(* and never more than one call in flight.                                 *)
(***************************************************************************)
C3_OneCallPerBatch ==
    prog = "optimize"
        => /\ calls = batches
           /\ inFlight \in {0, 1}
           /\ inFlight = 1 <=> pc = "calling"

C3_Witness ==
    /\ prog = "optimize"
    /\ batches = 2
    /\ Len(x) = 2
    /\ calls = 2
    /\ pc = "calling"

(***************************************************************************)
(* C4.  optimize.py: for a batch of N rows and a result without error key  *)
(* that carries N alt entries, out["F"] holds N losses, the i-th being     *)
(* 1.0 minus the i-th f_score.                                             *)
(***************************************************************************)
LossesInOrder(f_score) ==
    /\ out.set
    /\ raised = "none"
    /\ Len(out.v) = Len(x)
    /\ \A i \in 1..Len(x) :
          out.v[i] =
            CASE Tag(f_score[i]) = "float" ->
                   JFloat(RoundToFloat(Unit - Val(f_score[i])))
              [] Tag(f_score[i]) = "int" ->
                   JFloat(RoundToFloat(Unit - Val(f_score[i]) * Unit))
              [] OTHER -> NaN

\* as stated: a higher f_score always gives a strictly lower loss
C4_StrictlyLower ==
    (prog = "optimize" /\ Returned)
        => \E raw \in Raw :
             HasScores(raw, Len(x))
                 => \E f_score \in {Scores(raw.v)} :
                      /\ LossesInOrder(f_score)
                      /\ \A i, j \in 1..Len(x) :
                            (/\ Tag(f_score[i]) = "float"
                             /\ Tag(f_score[j]) = "float"
                             /\ Val(f_score[i]) > Val(f_score[j]))
                                => Val(out.v[i]) < Val(out.v[j])

\* as amended: a higher f_score never gives a higher loss
C4_NeverHigher ==
    (prog = "optimize" /\ Returned)
        => \E raw \in Raw :
             HasScores(raw, Len(x))
                 => \E f_score \in {Scores(raw.v)} :
                      /\ LossesInOrder(f_score)
                      /\ \A i, j \in 1..Len(x) :
                            (/\ Tag(f_score[i]) = "float"
                             /\ Tag(f_score[j]) = "float"
                             /\ Val(f_score[i]) > Val(f_score[j]))
                                => Val(out.v[i]) <= Val(out.v[j])

C4_Witness ==
    /\ prog = "optimize"
    /\ Len(x) = 2
    /\ r = Wire(None, <<FloatRepr(0), FloatRepr(Unit \div 2)>>)
    /\ out.set
    /\ out.v = <<JFloat(Unit), JFloat(Unit \div 2)>>

(***************************************************************************)
(* C5.  data_demo.py: for a result without error key that carries one      *)
(* f_score per injected alternative, the printed list holds these          *)
(* f_scores in the order of alt, and the exit code is 0.                   *)
(***************************************************************************)
C5_DemoPrintsScores ==
    (prog = "data_demo" /\ Returned)
        => \E raw \in Raw :
             HasScores(raw, Len(DemoAlts))
                 => /\ printed.set
                    /\ printed.v = Scores(raw.v)
                    /\ exit = <<0>>

(***************************************************************************)
(* C6.  Both scripts: the plan handed to a simulator call equals the       *)
(* loaded plan at every key but config.vad_config.                         *)
(* alt_vad_machine_configs, which it holds; no other key is added,         *)
(* removed or changed, however many batches came before.                   *)
(***************************************************************************)
C6_OtherKeysKept ==
    pc = "calling"
        => \E plan \in {loads(sent)} :
             /\ plan.ok
             /\ HasKey(Get(Get(plan.v, K_config), K_vad_config),
                       K_alt_vad_machine_configs)
             /\ OtherKeys(plan.v) = OtherKeys(loads(content).v)

C6_Witness ==
    /\ prog = "optimize"
    /\ pc = "calling"
    /\ batches = 2
    /\ content = dumps(PlanFull)

(***************************************************************************)
(* C7.  optimize.py: a result text whose f_scores are spelled nan or -nan  *)
(* is read without failure after the replacement, each such f_score as     *)
(* not-a-number at its place in alt, and the loss handed on for it is      *)
(* not-a-number.                                                           *)
(***************************************************************************)
C7_NanSpellingsRead ==
    (prog = "optimize" /\ Returned)
        => \E raw \in Raw, data \in {loads(Normalize(r))} :
             raw.ok
                 => /\ data.ok
                    /\ raised # "JSONDecodeError"
                    /\ ScoresReadable(raw.v)
                          => /\ ScoresReadable(data.v)
                             /\ Scores(data.v) = Scores(raw.v)
                    /\ HasScores(raw, Len(x))
                          => /\ out.set
                             /\ \A i \in 1..Len(x) :
                                   (Scores(raw.v)[i] = NaN) <=> (out.v[i] = NaN)

C7_Witness ==
    /\ prog = "optimize"
    /\ r = Wire(None, << <<"-","n","a","n">>, <<"n","a","n">> >>)
    /\ out.set
    /\ out.v = <<NaN, NaN>>

(***************************************************************************)
(* C8.  Both scripts: a result without error key whose f_scores are        *)
(* spelled nan or -nan does not make the run fail; data_demo.py prints     *)
(* one value per alternative and ends with exit code 0.                    *)
(***************************************************************************)
C8_NanSpellingsEverywhere ==
    Returned
        => \E raw \in Raw :
             (/\ OddSpelling(raw)
              /\ HasScores(raw, IF prog = "optimize" THEN Len(x) ELSE Len(DemoAlts)))
                 => /\ raised = "none"
                    /\ prog = "data_demo"
                          => /\ printed.set
                             /\ Len(printed.v) = Len(DemoAlts)
                             /\ exit = <<0>>

(***************************************************************************)
(* C9.  optimize.py: the alt_vad_machine_configs of the plan handed to the *)
(* simulator holds one config per row of the batch under evaluation, in    *)
(* row order, its five parameters being columns 0..4 of the row; nothing   *)
(* of an earlier batch or of the plan file is left in the list.            *)
(***************************************************************************)
C9_FreshConfigsPerBatch ==
    (prog = "optimize" /\ pc = "calling")
        => \E alt \in {AltConfigs(loads(sent).v)} :
             /\ Tag(alt) = "arr"
             /\ Len(Val(alt)) = Len(x)
             /\ \A i \in 1..Len(x) :
                   Val(alt)[i] =
                     JObj(<< <<K_speech_min_freq, JFloat(x[i][1])>>,
                             <<K_speech_max_freq, JFloat(x[i][2])>>,
                             <<K_long_term_speech_avg_sec, JFloat(x[i][3])>>,
                             <<K_short_term_speech_avg_sec, JFloat(x[i][4])>>,
                             <<K_speech_threshold_factor, JFloat(x[i][5])>> >>)

C9_Witness ==
    /\ prog = "optimize"
    /\ pc = "calling"
    /\ batches = 2
    /\ content = dumps(PlanFull)
    /\ Len(x) = 2
    /\ x[1] # x[2]

(***************************************************************************)
(* C10.  optimize.py: the replacement leaves every object key and every    *)
(* string value of the result as the raw text has it.                      *)
(***************************************************************************)
C10_OnlyNumbersRewritten ==
    (prog = "optimize" /\ Returned)
        => \E raw \in Raw, data \in {loads(Normalize(r))} :
             raw.ok => (data.ok /\ Skeleton(data.v) = Skeleton(raw.v))
====
